---- MODULE Spec2Model ----
(***************************************************************************)
(* Boolean Algebra Visualizer: the expression engine (src/app.js, class    *)
(* BooleanExpression: normalize, extractVariables, tokenize, parse,        *)
(* evaluateAst, generateTruthTable) and the SOP extractor                  *)
(* (src/public/visualizer.js, Visualizer.extractSOP), under Spec; the      *)
(* submit and copy handlers of the page (src/app.js, DOMContentLoaded      *)
(* callback) under SpecUI.                                                 *)
(*                                                                         *)
(* A JavaScript string is a sequence of one-character strings.  A thrown   *)
(* Error is a record carrying its message; a function that may throw       *)
(* returns a record with an ok flag.  JavaScript values met by the         *)
(* evaluator are "true", "false" and "undefined".                          *)
(***************************************************************************)
EXTENDS Integers, Sequences, FiniteSets, TLC

\* ------------------------------------------------------------------ bounds
\* longest raw input string enumerated over the full raw alphabet
MaxLen == 3
\* longest input string enumerated over the canonical (token) alphabet
MaxTokens == 5
\* number of submissions followed in the page
MaxSubmissions == 3

\* ------------------------------------------------------------- characters
LowerLetters == {"a", "b", "c", "d", "n", "o", "r", "t", "x"}
Digits == {"1"}
Whitespace == {" "}

\* the raw alphabet of enumerated inputs: letters in both cases, a digit,
\* the operator spellings, parentheses, blank, and an unsupported character
RawAlphabet == {"a", "b", "A", "1", "'", "!", "*", "|", "+", "(", ")", "#", " "}
\* the canonical alphabet: what the tokenizer accepts
TokenAlphabet == {"a", "b", "1", "'", "*", "|", "(", ")"}

StringsUpTo(S, n) == UNION {[1..k -> S] : k \in 0..n}

\* ------------------------------------------------------------------ errors
NoError == [message |-> "", value |-> "", position |-> -1]
Error(msg, val, pos) == [message |-> msg, value |-> val, position |-> pos]

\* ------------------------------------------------------------- normalize
\* mutant: the overline is not rewritten
replaceChar_noOverline(ch) ==
  CASE ch = "middot" -> "*"
    [] ch = "!" -> "'"
    [] ch = "+" -> "|"
    [] OTHER -> ch

\* the four .replace() calls, one character at a time
replaceChar(ch) ==
  CASE ch = "middot" -> "*"
    [] ch = "macron" -> "'"
    [] ch = "!" -> "'"
    [] ch = "+" -> "|"
    [] OTHER -> ch

\* String.prototype.toLowerCase on one character
toLowerCase(ch) ==
  CASE ch = "A" -> "a"
    [] ch = "B" -> "b"
    [] ch = "C" -> "c"
    [] ch = "D" -> "d"
    [] ch = "N" -> "n"
    [] ch = "O" -> "o"
    [] ch = "R" -> "r"
    [] ch = "T" -> "t"
    [] ch = "X" -> "x"
    [] OTHER -> ch

\* String.prototype.toUpperCase on one character
toUpperCase(ch) ==
  CASE ch = "a" -> "A"
    [] ch = "b" -> "B"
    [] ch = "c" -> "C"
    [] ch = "d" -> "D"
    [] ch = "n" -> "N"
    [] ch = "o" -> "O"
    [] ch = "r" -> "R"
    [] ch = "t" -> "T"
    [] ch = "x" -> "X"
    [] OTHER -> ch

RECURSIVE trimStart(_)
trimStart(s) ==
  IF s # <<>> /\ Head(s) \in Whitespace THEN trimStart(Tail(s)) ELSE s

RECURSIVE trimEnd(_)
trimEnd(s) ==
  IF s # <<>> /\ s[Len(s)] \in Whitespace
    THEN trimEnd(SubSeq(s, 1, Len(s) - 1))
    ELSE s

trim(s) == trimEnd(trimStart(s))

normalize(expr) ==
  trim([k \in 1..Len(expr) |-> toLowerCase(replaceChar(expr[k]))])

\* ------------------------------------------------------ extractVariables
\* UTF-16 code unit of a lower-case letter (the order Array.sort uses)
charCode(ch) ==
  CASE ch = "a" -> 97
    [] ch = "b" -> 98
    [] ch = "c" -> 99
    [] ch = "d" -> 100
    [] ch = "n" -> 110
    [] ch = "o" -> 111
    [] ch = "r" -> 114
    [] ch = "t" -> 116
    [] ch = "x" -> 120
    [] OTHER -> 0

IsLetter(ch) == ch \in LowerLetters

\* normalizedExpression.match(/[a-z]/g) || []
matchLetters(s) == SelectSeq(s, IsLetter)

\* [...new Set(matches)]: first occurrences, in insertion order
RECURSIVE uniqueInOrder(_, _)
uniqueInOrder(s, seen) ==
  IF s = <<>> THEN <<>>
  ELSE IF Head(s) \in seen THEN uniqueInOrder(Tail(s), seen)
  ELSE <<Head(s)>> \o uniqueInOrder(Tail(s), seen \cup {Head(s)})

RECURSIVE insertSorted(_, _)
insertSorted(ch, s) ==
  IF s = <<>> THEN <<ch>>
  ELSE IF charCode(ch) < charCode(Head(s)) THEN <<ch>> \o s
  ELSE <<Head(s)>> \o insertSorted(ch, Tail(s))

\* mutant: the matches are left in order of first occurrence
sort_unsorted(s) == s

\* Array.prototype.sort() with the default comparator
RECURSIVE sort(_)
sort(s) == IF s = <<>> THEN <<>> ELSE insertSorted(Head(s), sort(Tail(s)))

extractVariables(normalizedExpr) ==
  sort(uniqueInOrder(matchLetters(normalizedExpr), {}))

\* --------------------------------------------------------------- tokenize
Token(t, v) == [type |-> t, value |-> v]

\* mutant: the reported index is one-based
UnknownCharacter_oneBased(ch, i) == Error("Unknown character", ch, i + 1)

\* the message of the final else branch; i is the zero-based index
UnknownCharacter(ch, i) == Error("Unknown character", ch, i)

\* mutant: the AND and OR characters exchanged
tokenType_swapped(ch) ==
  CASE ch = "(" -> "LPAREN"
    [] ch = ")" -> "RPAREN"
    [] ch = "'" -> "NOT"
    [] ch = "*" -> "OR"
    [] ch = "|" -> "AND"
    [] ch \in LowerLetters \cup Digits -> "VAR"
    [] OTHER -> "none"

\* the token one character becomes, or "none" for an unknown character
tokenType(ch) ==
  CASE ch = "(" -> "LPAREN"
    [] ch = ")" -> "RPAREN"
    [] ch = "'" -> "NOT"
    [] ch = "*" -> "AND"
    [] ch = "|" -> "OR"
    [] ch \in LowerLetters \cup Digits -> "VAR"
    [] OTHER -> "none"

\* the while loop of tokenize, from zero-based index i with tokens so far
RECURSIVE tokenizeFrom(_, _, _)
tokenizeFrom(expr, i, tokens) ==
  IF i >= Len(expr) THEN [ok |-> TRUE, tokens |-> tokens, error |-> NoError]
  ELSE LET ch == expr[i + 1] IN
    IF ch \in Whitespace THEN tokenizeFrom(expr, i + 1, tokens)
    ELSE IF tokenType(ch) # "none"
      THEN tokenizeFrom(expr, i + 1, Append(tokens, Token(tokenType(ch), ch)))
    ELSE [ok |-> FALSE, tokens |-> <<>>, error |-> UnknownCharacter(ch, i)]

tokenize(expr) == tokenizeFrom(expr, 0, <<>>)

\* ------------------------------------------------------------------ parse
\* the object literals the parser builds
VarNode(v) == [type |-> "VAR", value |-> v]
NotNode(operand) == [type |-> "NOT", operand |-> operand, operator |-> "'"]
AndNode(left, right) ==
  [type |-> "AND", left |-> left, right |-> right, operator |-> "*"]
OrNode(left, right) ==
  [type |-> "OR", left |-> left, right |-> right, operator |-> "|"]
\* this.ast of an object whose constructor threw before assigning it
NullAst == [type |-> "null"]

\* a production's outcome: the node and the position after it, or the throw
Parsed(node, position) ==
  [ok |-> TRUE, node |-> node, position |-> position, error |-> NoError]
Thrown(err) ==
  [ok |-> FALSE, node |-> NullAst, position |-> -1, error |-> err]

\* peek() && peek().type === t ; position is zero-based
peekIs(tokens, position, t) ==
  position < Len(tokens) /\ tokens[position + 1].type = t

\* The four mutually recursive closures of parse() as one recursive
\* operator: production names the closure entered ("parseOr", "parseAnd",
\* "parseNot", "parsePrimary") or the while loop of parseOr / parseAnd
\* re-entered with the left operand built so far ("parseOrLoop",
\* "parseAndLoop"); left is that operand and is NullAst elsewhere.
RECURSIVE descend(_, _, _, _)
descend(production, tokens, left, position) ==
  CASE production = "parseOr" ->
         LET l == descend("parseAnd", tokens, NullAst, position) IN
         IF l.ok THEN descend("parseOrLoop", tokens, l.node, l.position)
         ELSE l
    [] production = "parseOrLoop" ->
         IF peekIs(tokens, position, "OR") THEN
           LET right == descend("parseAnd", tokens, NullAst, position + 1) IN
           IF right.ok
             THEN descend("parseOrLoop", tokens, OrNode(left, right.node),
                          right.position)
             ELSE right
         ELSE Parsed(left, position)
    [] production = "parseAnd" ->
         LET l == descend("parseNot", tokens, NullAst, position) IN
         IF l.ok THEN descend("parseAndLoop", tokens, l.node, l.position)
         ELSE l
    [] production = "parseAndLoop" ->
         IF peekIs(tokens, position, "AND") THEN
           LET right == descend("parseNot", tokens, NullAst, position + 1) IN
           IF right.ok
             THEN descend("parseAndLoop", tokens, AndNode(left, right.node),
                          right.position)
             ELSE right
         ELSE Parsed(left, position)
    [] production = "parseNot" ->
         IF peekIs(tokens, position, "NOT") THEN
           LET operand == descend("parseNot", tokens, NullAst, position + 1) IN
           IF operand.ok THEN Parsed(NotNode(operand.node), operand.position)
           ELSE operand
         ELSE descend("parsePrimary", tokens, NullAst, position)
    [] production = "parsePrimary" ->
         IF ~(position < Len(tokens))
           THEN Thrown(Error("Unexpected end of expression", "", -1))
         ELSE LET token == tokens[position + 1] IN
           IF token.type = "LPAREN" THEN
             LET expr == descend("parseOr", tokens, NullAst, position + 1) IN
             IF ~expr.ok THEN expr
             ELSE IF ~peekIs(tokens, expr.position, "RPAREN")
               THEN Thrown(Error("Expected closing parenthesis", "", -1))
             ELSE Parsed(expr.node, expr.position + 1)
           ELSE IF token.type = "VAR"
             THEN Parsed(VarNode(token.value), position + 1)
           ELSE Thrown(Error("Unexpected token", token.value, -1))

parsePrimary(tokens, position) ==
  descend("parsePrimary", tokens, NullAst, position)
parseNot(tokens, position) == descend("parseNot", tokens, NullAst, position)
parseAnd(tokens, position) == descend("parseAnd", tokens, NullAst, position)
parseOr(tokens, position) == descend("parseOr", tokens, NullAst, position)

\* mutant: the test for unconsumed tokens is missing
parseTokens_noTrailingTest(tokens) == parseOr(tokens, 0)

\* the body of parse() after tokenize: parseOr, then the trailing-token test
parseTokens(tokens) ==
  LET r == parseOr(tokens, 0) IN
  IF ~r.ok THEN r
  ELSE IF r.position < Len(tokens)
    THEN Thrown(Error("Unexpected tokens at end of expression", "", -1))
  ELSE r

parse(normalizedExpr) ==
  LET t == tokenize(normalizedExpr) IN
  IF t.ok THEN parseTokens(t.tokens) ELSE Thrown(t.error)

\* ------------------------------------------------------------ evaluateAst
JsValues == {"true", "false", "undefined"}
\* the value of the throw at the end of evaluateAst
UnknownNodeType == "throw"

\* ToBoolean of a value the evaluator can meet
truthy(v) == v = "true"

\* symbolTable[key]: a property that was never set reads as undefined
lookup(symbolTable, key) ==
  IF key \in DOMAIN symbolTable THEN symbolTable[key] ELSE "undefined"

\* !x
jsNot(x) == IF truthy(x) THEN "false" ELSE "true"
\* mutant: && evaluated as ||
jsAnd_asOr(l, r) == IF truthy(l) THEN l ELSE r

\* l && r : the left operand when it is falsy, else the right one
jsAnd(l, r) == IF truthy(l) THEN r ELSE l
\* l || r : the left operand when it is truthy, else the right one
jsOr(l, r) == IF truthy(l) THEN l ELSE r

RECURSIVE evaluateAst(_, _)
evaluateAst(node, symbolTable) ==
  IF node.type = "VAR" THEN lookup(symbolTable, node.value)
  ELSE IF node.type = "NOT" THEN
    LET v == evaluateAst(node.operand, symbolTable) IN
    IF v = UnknownNodeType THEN v ELSE jsNot(v)
  ELSE IF node.type = "AND" THEN
    LET l == evaluateAst(node.left, symbolTable) IN
    IF l = UnknownNodeType \/ ~truthy(l) THEN l
    ELSE jsAnd(l, evaluateAst(node.right, symbolTable))
  ELSE IF node.type = "OR" THEN
    LET l == evaluateAst(node.left, symbolTable) IN
    IF l = UnknownNodeType \/ truthy(l) THEN l
    ELSE jsOr(l, evaluateAst(node.right, symbolTable))
  ELSE UnknownNodeType

\* ----------------------------------------------------- generateTruthTable
RECURSIVE pow2(_)
pow2(n) == IF n = 0 THEN 1 ELSE 2 * pow2(n - 1)

\* mutant: 2 * numVars rows
numRowsOf_linear(numVars) == 2 * numVars

\* Math.pow(2, numVars)
numRowsOf(numVars) == pow2(numVars)

\* mutant: the first variable takes the least-significant bit
bitOf_lsbFirst(i, numVars, j) == (i \div pow2(j)) % 2

\* (i >> (numVars - 1 - j)) & 1 ; j is zero-based
bitOf(i, numVars, j) == (i \div pow2(numVars - 1 - j)) % 2

\* symbolTable after the inner loop of row i: bit === 1 for each variable
symbolTableOf(vars, i) ==
  [v \in {vars[k] : k \in 1..Len(vars)} |->
     LET j == (CHOOSE k \in 1..Len(vars) : vars[k] = v) - 1 IN
     IF bitOf(i, Len(vars), j) = 1 THEN "true" ELSE "false"]

\* row after the inner loop and the assignment of row.output
rowOf(vars, node, i) ==
  [key \in {vars[k] : k \in 1..Len(vars)} \cup {"output"} |->
     IF key = "output"
       THEN (IF truthy(evaluateAst(node, symbolTableOf(vars, i))) THEN 1 ELSE 0)
       ELSE bitOf(i, Len(vars), (CHOOSE k \in 1..Len(vars) : vars[k] = key) - 1)]

generateTruthTable(vars, node) ==
  [r \in 1..numRowsOf(Len(vars)) |-> rowOf(vars, node, r - 1)]

\* the evaluation of some row reaches the throw of evaluateAst
tableThrows(vars, node) ==
  \E i \in 0..(numRowsOf(Len(vars)) - 1) :
    evaluateAst(node, symbolTableOf(vars, i)) = UnknownNodeType

\* ------------------------------------------------------------ constructor
\* new BooleanExpression(expression): the fields assigned, in order, until
\* a step throws
BooleanExpression(expression) ==
  LET norm == normalize(expression)
      vars == extractVariables(norm)
      p == parse(norm)
  IN IF ~p.ok THEN
       [ok |-> FALSE, normalizedExpression |-> norm, variables |-> vars,
        ast |-> NullAst, truthTable |-> <<>>, error |-> p.error]
     ELSE IF tableThrows(vars, p.node) THEN
       [ok |-> FALSE, normalizedExpression |-> norm, variables |-> vars,
        ast |-> p.node, truthTable |-> <<>>,
        error |-> Error("Unknown AST node type", "", -1)]
     ELSE
       [ok |-> TRUE, normalizedExpression |-> norm, variables |-> vars,
        ast |-> p.node, truthTable |-> generateTruthTable(vars, p.node),
        error |-> NoError]

\* ---------------------------------------------------------------- toLatex
\* the string built by toLatex, as the sequence of its pieces
RECURSIVE toLatex(_)
toLatex(node) ==
  IF node.type = "VAR" THEN <<node.value>>
  ELSE IF node.type = "NOT"
    THEN <<"\\overline{">> \o toLatex(node.operand) \o <<"}">>
  ELSE IF node.type = "AND"
    THEN toLatex(node.left) \o <<" \\cdot ">> \o toLatex(node.right)
  ELSE IF node.type = "OR"
    THEN toLatex(node.left) \o <<" + ">> \o toLatex(node.right)
  ELSE <<"undefined">>

\* ------------------------------------------------------------- extractSOP
Literal(v, inv) == [var |-> v, inverted |-> inv]

RECURSIVE flat(_)
flat(ss) == IF ss = <<>> THEN <<>> ELSE Head(ss) \o flat(Tail(ss))

\* mutant: the literals are copied without negating the flag
sopNot_noFlip(inner) ==
  [t \in 1..Len(inner) |->
     [l \in 1..Len(inner[t]) |->
        Literal(inner[t][l].var, inner[t][l].inverted)]]

\* inner.map(term => term.map(lit => ({...lit, inverted: !lit.inverted})))
sopNot(inner) ==
  [t \in 1..Len(inner) |->
     [l \in 1..Len(inner[t]) |->
        Literal(inner[t][l].var, ~inner[t][l].inverted)]]

\* mutant: the right term's literals placed first
sopAnd_rightFirst(left, right) ==
  flat([l \in 1..Len(left) |-> [r \in 1..Len(right) |-> right[r] \o left[l]]])

\* left.flatMap(l => right.map(r => [...l, ...r]))
sopAnd(left, right) ==
  flat([l \in 1..Len(left) |-> [r \in 1..Len(right) |-> left[l] \o right[r]]])

\* [...extractSOP(node.left), ...extractSOP(node.right)]
sopOr(left, right) == left \o right

RECURSIVE extractSOP(_)
extractSOP(node) ==
  IF node.type = "null" THEN <<>>
  ELSE IF node.type = "VAR" THEN <<<<Literal(node.value, FALSE)>>>>
  ELSE IF node.type = "NOT" THEN sopNot(extractSOP(node.operand))
  ELSE IF node.type = "AND"
    THEN sopAnd(extractSOP(node.left), extractSOP(node.right))
  ELSE IF node.type = "OR"
    THEN sopOr(extractSOP(node.left), extractSOP(node.right))
  ELSE <<>>

\* ---------------------------------------------------------------- inputs
\* expressions named by the documentation and the startup log
Examples ==
  { <<"(", "a", "+", "b", ")", "*", "c">>,
    <<"!", "(", "a", "*", "b", ")">>,
    <<"!", "(", "a", "+", "b", ")">>,
    <<"a", "|", "b", "*", "c">>,
    <<"a", "|", "(", "b", "*", "c", ")">>,
    <<"A", "middot", "B", "+", "C">>,
    <<"(", "A", "+", "B", ")", "middot", "(", "C", "+", "D", ")">>,
    <<"A", "'", "middot", "B", "+", "A", "middot", "B", "'">>,
    <<"!", "(", "A", "middot", "B", ")", "+", "C">>,
    <<"a", "'", "'">>,
    <<"a", "#", "b">>,
    <<"!", "1">>,
    <<"A", "B">>,
    <<"A", "*", "B">>,
    <<"A", "+", "B">>,
    <<"!", "A">>,
    <<"A", " ", "&", " ", "B">>,
    <<"A", " ", "a", "n", "d", " ", "B">>,
    <<"A", " ", "o", "r", " ", "B">>,
    <<"~", "A">>,
    <<"n", "o", "t", " ", "A">>,
    <<"A", " ", "^", " ", "B">>,
    <<"A", " ", "x", "o", "r", " ", "B">>,
    <<"A", " ", "n", "a", "n", "d", " ", "B">>,
    <<"A", " ", "n", "o", "r", " ", "B">>,
    <<"b", "*", "A", "|", "a">> }

\* operands of the precedence inputs: an atom, a negated atom, a group
Operands ==
  { <<"a">>, <<"b">>, <<"c">>, <<"'", "a">>, <<"(", "a", "|", "b", ")">> }

OrThenAnd(x, y, z) == x \o <<"|">> \o y \o <<"*">> \o z
OrThenAndGrouped(x, y, z) == x \o <<"|", "(">> \o y \o <<"*">> \o z \o <<")">>
AndThenOr(x, y, z) == x \o <<"*">> \o y \o <<"|">> \o z
AndThenOrGrouped(x, y, z) == <<"(">> \o x \o <<"*">> \o y \o <<")", "|">> \o z

PrecedenceInputs ==
  {OrThenAnd(x, y, z) : x \in Operands, y \in Operands, z \in Operands}
  \cup {AndThenOr(x, y, z) : x \in Operands, y \in Operands, z \in Operands}

Inputs ==
  StringsUpTo(RawAlphabet, MaxLen) \cup StringsUpTo(TokenAlphabet, MaxTokens)
  \cup Examples \cup PrecedenceInputs

\* ------------------------------------------------------------------ state
VARIABLES
  pc,                   \* "start", "constructed", "failed", "rendered"
  originalExpression,   \* the string handed to the constructor
  normalizedExpression, \* this.normalizedExpression
  variables,            \* this.variables
  ast,                  \* this.ast
  truthTable,           \* this.truthTable
  error,                \* the Error the constructor threw, or NoError
  sopTerms              \* sopTerms of renderCMOSDiagram

\* the page (the closure of the DOMContentLoaded callback and its elements)
VARIABLES
  submitted,            \* expressionInput.value read by the latest visualize()
  currentVisualizer,    \* let currentVisualizer
  currentLatex,         \* let currentLatex
  errorDisplay,         \* errorMessage.style.display
  errorText,            \* errorMessage.textContent
  clipboard,            \* the text last handed to navigator.clipboard
  lastOutcome,          \* history: how the latest visualize() ended
  submissions,          \* history: the number of visualize() calls so far
  activeTabs,           \* the keys of tabs whose classList holds 'active'
  panelDisplay,         \* key |-> contents[key].style.display
  lastTab               \* history: the key of the tab clicked last

vars == <<pc, originalExpression, normalizedExpression, variables, ast,
          truthTable, error, sopTerms>>

uiVars == <<submitted, currentVisualizer, currentLatex, errorDisplay,
            errorText, clipboard, lastOutcome, submissions,
            activeTabs, panelDisplay, lastTab>>

tabVars == <<activeTabs, panelDisplay, lastTab>>

\* ---------------------------------------------------------------- the page
\* new Visualizer(boolExpr): the fields the handlers read
Visualizer(boolExpr) ==
  [ast |-> boolExpr.ast, variables |-> boolExpr.variables,
   truthTable |-> boolExpr.truthTable]

\* let currentVisualizer = null
NullVisualizer == [ast |-> NullAst, variables |-> <<>>, truthTable |-> <<>>]

\* nothing handed to the clipboard yet
NoClipboard == [kind |-> "none", latex |-> <<>>, csv |-> <<>>]

\* showError('Enter expression')
EnterExpression == Error("Enter expression", "", -1)

\* The four render calls of visualize() run code that src/ does not hold
\* (renderKMap is not a method of the Visualizer of public/visualizer.js):
\* whether they return or throw is left open.
RenderOutcomes == {"returns", "throws"}
RenderError == Error("render", "", -1)

\* showError(msg) on the error element el
showError(el, msg) == [el EXCEPT !.textContent = msg, !.display = "block"]

\* mutant: clearError leaves the element as it is
clearError_noop(el) == el

\* clearError() on the error element el
clearError(el) == [el EXCEPT !.display = "none"]

\* mutant: the catch block also drops the stored visualizer and LaTeX
visualize_resetOnError(page, value, renderOutcome) ==
  LET expression == trim(value) IN
  IF expression = <<>> THEN
    [page EXCEPT !.errorMessage = showError(@, EnterExpression),
                 !.outcome = "empty"]
  ELSE
    LET cleared == [page EXCEPT !.errorMessage = clearError(@)]
        boolExpr == BooleanExpression(expression)
    IN IF ~boolExpr.ok THEN
         [cleared EXCEPT !.errorMessage = showError(@, boolExpr.error),
                         !.currentVisualizer = NullVisualizer,
                         !.currentLatex = <<>>,
                         !.outcome = "error"]
       ELSE
         LET stored ==
               [cleared EXCEPT !.currentVisualizer = Visualizer(boolExpr),
                               !.currentLatex = toLatex(boolExpr.ast)]
         IN IF renderOutcome = "throws" THEN
              [stored EXCEPT !.errorMessage = showError(@, RenderError),
                             !.outcome = "renderError"]
            ELSE [stored EXCEPT !.outcome = "ok"]

\* visualize() on the page [currentVisualizer, currentLatex, errorMessage]
\* with expressionInput.value = value; outcome names the path taken
visualize(page, value, renderOutcome) ==
  LET expression == trim(value) IN
  IF expression = <<>> THEN
    [page EXCEPT !.errorMessage = showError(@, EnterExpression),
                 !.outcome = "empty"]
  ELSE
    LET cleared == [page EXCEPT !.errorMessage = clearError(@)]
        boolExpr == BooleanExpression(expression)
    IN IF ~boolExpr.ok THEN
         [cleared EXCEPT !.errorMessage = showError(@, boolExpr.error),
                         !.outcome = "error"]
       ELSE
         LET stored ==
               [cleared EXCEPT !.currentVisualizer = Visualizer(boolExpr),
                               !.currentLatex = toLatex(boolExpr.ast)]
         IN IF renderOutcome = "throws" THEN
              [stored EXCEPT !.errorMessage = showError(@, RenderError),
                             !.outcome = "renderError"]
            ELSE [stored EXCEPT !.outcome = "ok"]

\* one cell of the CSV text
bitText(bit) == IF bit = 1 THEN "1" ELSE "0"

\* the csv string of the copyCSVBtn handler, as its lines of cells
csvOf(visualizer) ==
  LET vs == visualizer.variables
      table == visualizer.truthTable
  IN << [k \in 1..(Len(vs) + 1) |->
           IF k <= Len(vs) THEN toUpperCase(vs[k]) ELSE "Output"] >>
     \o [r \in 1..Len(table) |->
           [k \in 1..(Len(vs) + 1) |->
              IF k <= Len(vs) THEN bitText(table[r][vs[k]])
              ELSE bitText(table[r]["output"])]]

\* Object.keys(tabs)
TabKeys == {"block", "cmos", "truth", "kmap"}

\* mutant: the click handler does not take 'active' off the other tabs
tabClick_keepsActive(tabState, key) ==
  [active |-> tabState.active \cup {key},
   display |-> [k \in TabKeys |-> IF k = key THEN "block" ELSE "none"]]

\* the click handler of tabs[key] on [active, display]
tabClick(tabState, key) ==
  LET removed == tabState.active \ TabKeys
      hidden == [k \in TabKeys |-> "none"]
  IN [active |-> removed \cup {key},
      display |-> [hidden EXCEPT ![key] = "block"]]

\* The tab state the markup starts the page with; the markup is not part
\* of the sources, so it may mark no tab or the first one, with the inline
\* display of the panels unset or set to match.
Markups ==
  { [active |-> {}, display |-> [k \in TabKeys |-> ""]],
    [active |-> {"block"}, display |-> [k \in TabKeys |-> ""]],
    [active |-> {"block"},
     display |-> [k \in TabKeys |-> IF k = "block" THEN "block" ELSE "none"]] }

\* the values typed into expressionInput
UIInputs ==
  { <<>>, <<" ">>, <<"a">>, <<"!", "a">>, <<"a", "*", "b">>,
    <<"A", "+", "B">>, <<"1">>, <<"a", "*">>, <<"a", "#", "b">>,
    <<"(", "a">>, <<"a", "'">> }

\* ---------------------------------------------------------- specifications
EngineIdle ==
  /\ pc = "start"
  /\ originalExpression = <<>>
  /\ normalizedExpression = <<>>
  /\ variables = <<>>
  /\ ast = NullAst
  /\ truthTable = <<>>
  /\ error = NoError
  /\ sopTerms = <<>>

\* the page as loaded: no visualizer, no LaTeX, nothing submitted; whether
\* the error element starts hidden is set by the style sheet
PageLoaded ==
  /\ submitted = <<>>
  /\ currentVisualizer = NullVisualizer
  /\ currentLatex = <<>>
  /\ errorDisplay \in {"none", "block"}
  /\ errorText = NoError
  /\ clipboard = NoClipboard
  /\ lastOutcome = "none"
  /\ submissions = 0
  /\ \E markup \in Markups :
       activeTabs = markup.active /\ panelDisplay = markup.display
  /\ lastTab = "none"

PageIdle ==
  /\ submitted = <<>>
  /\ currentVisualizer = NullVisualizer
  /\ currentLatex = <<>>
  /\ errorDisplay = "none"
  /\ errorText = NoError
  /\ clipboard = NoClipboard
  /\ lastOutcome = "none"
  /\ submissions = 0
  /\ activeTabs = {}
  /\ panelDisplay = [k \in TabKeys |-> ""]
  /\ lastTab = "none"

Init ==
  /\ pc = "start"
  /\ originalExpression \in Inputs
  /\ normalizedExpression = <<>>
  /\ variables = <<>>
  /\ ast = NullAst
  /\ truthTable = <<>>
  /\ error = NoError
  /\ sopTerms = <<>>
  /\ PageIdle

\* new BooleanExpression(originalExpression)
Construct ==
  /\ pc = "start"
  /\ LET e == BooleanExpression(originalExpression) IN
       /\ pc' = IF e.ok THEN "constructed" ELSE "failed"
       /\ normalizedExpression' = e.normalizedExpression
       /\ variables' = e.variables
       /\ ast' = e.ast
       /\ truthTable' = e.truthTable
       /\ error' = e.error
  /\ UNCHANGED <<originalExpression, sopTerms>>
  /\ UNCHANGED uiVars

\* new Visualizer(boolExpr).renderCMOSDiagram(svg): the SOP it draws
RenderCMOS ==
  /\ pc = "constructed"
  /\ sopTerms' = extractSOP(ast)
  /\ pc' = "rendered"
  /\ UNCHANGED <<originalExpression, normalizedExpression, variables, ast,
                 truthTable, error>>
  /\ UNCHANGED uiVars

Next == Construct \/ RenderCMOS

Spec == Init /\ [][Next]_<<vars, uiVars>>

UIInit == EngineIdle /\ PageLoaded

\* Enter pressed in expressionInput: visualize()
Visualize ==
  /\ submissions < MaxSubmissions
  /\ \E value \in UIInputs, renderOutcome \in RenderOutcomes :
       LET page == [currentVisualizer |-> currentVisualizer,
                    currentLatex |-> currentLatex,
                    errorMessage |-> [textContent |-> errorText,
                                      display |-> errorDisplay],
                    outcome |-> lastOutcome]
           after == visualize(page, value, renderOutcome)
       IN /\ submitted' = value
          /\ currentVisualizer' = after.currentVisualizer
          /\ currentLatex' = after.currentLatex
          /\ errorDisplay' = after.errorMessage.display
          /\ errorText' = after.errorMessage.textContent
          /\ lastOutcome' = after.outcome
  /\ submissions' = submissions + 1
  /\ UNCHANGED clipboard
  /\ UNCHANGED tabVars
  /\ UNCHANGED vars

\* click on copyLatexBtn
CopyLatex ==
  /\ clipboard' =
       IF currentLatex = <<>> THEN clipboard
       ELSE [kind |-> "latex", latex |-> currentLatex, csv |-> <<>>]
  /\ UNCHANGED <<submitted, currentVisualizer, currentLatex, errorDisplay,
                 errorText, lastOutcome, submissions>>
  /\ UNCHANGED tabVars
  /\ UNCHANGED vars

\* click on copyCSVBtn
CopyCSV ==
  /\ clipboard' =
       IF currentVisualizer = NullVisualizer THEN clipboard
       ELSE [kind |-> "csv", latex |-> <<>>, csv |-> csvOf(currentVisualizer)]
  /\ UNCHANGED <<submitted, currentVisualizer, currentLatex, errorDisplay,
                 errorText, lastOutcome, submissions>>
  /\ UNCHANGED tabVars
  /\ UNCHANGED vars

\* click on one of the four tabs
TabClick ==
  /\ \E key \in TabKeys :
       LET after == tabClick([active |-> activeTabs,
                              display |-> panelDisplay], key)
       IN /\ activeTabs' = after.active
          /\ panelDisplay' = after.display
          /\ lastTab' = key
  /\ UNCHANGED <<submitted, currentVisualizer, currentLatex, errorDisplay,
                 errorText, clipboard, lastOutcome, submissions>>
  /\ UNCHANGED vars

UINext == Visualize \/ CopyLatex \/ CopyCSV \/ TabClick

SpecUI == UIInit /\ [][UINext]_<<vars, uiVars>>

\* ======================================================================
\* Properties
\* ======================================================================
Constructed == pc \in {"constructed", "rendered"}

RECURSIVE Subtrees(_)
Subtrees(node) ==
  IF node.type = "NOT" THEN {node} \cup Subtrees(node.operand)
  ELSE IF node.type \in {"AND", "OR"}
    THEN {node} \cup Subtrees(node.left) \cup Subtrees(node.right)
  ELSE {node}

AtomsOf(node) == {n.value : n \in {m \in Subtrees(node) : m.type = "VAR"}}

\* the standard semantics of NOT, AND and OR over the bits of a row
RECURSIVE Holds(_, _)
Holds(node, row) ==
  CASE node.type = "VAR" -> row[node.value] = 1
    [] node.type = "NOT" -> ~Holds(node.operand, row)
    [] node.type = "AND" -> Holds(node.left, row) /\ Holds(node.right, row)
    [] node.type = "OR" -> Holds(node.left, row) \/ Holds(node.right, row)

RowIndices == 1..Len(truthTable)

\* C1: for an expression that parses and whose atoms are all letters, the
\* output of every row is 1 exactly when the expression is true under the
\* row's assignment; a*b is 1 only at a=1,b=1 and a|b is 0 only at a=0,b=0.
C1_OutputIsStandardSemantics ==
  (Constructed /\ AtomsOf(ast) \subseteq LowerLetters) =>
    /\ \A r \in RowIndices :
         truthTable[r]["output"] = (IF Holds(ast, truthTable[r]) THEN 1 ELSE 0)
    /\ normalizedExpression = <<"a", "*", "b">> =>
         /\ Len(truthTable) = 4
         /\ \A r \in RowIndices :
              truthTable[r]["output"] = 1
                <=> (truthTable[r]["a"] = 1 /\ truthTable[r]["b"] = 1)
    /\ normalizedExpression = <<"a", "|", "b">> =>
         /\ Len(truthTable) = 4
         /\ \A r \in RowIndices :
              truthTable[r]["output"] = 0
                <=> (truthTable[r]["a"] = 0 /\ truthTable[r]["b"] = 0)

C1_Witness ==
  /\ Constructed
  /\ normalizedExpression = <<"a", "*", "b">>
  /\ truthTable[4]["output"] = 1
  /\ truthTable[1]["output"] = 0

\* C2: a constructed expression has exactly 2^n truth-table rows, n the
\* length of the variable list, and every bit and output is 0 or 1.
C2_RowCountIsPowerOfTwo ==
  Constructed =>
    /\ Len(truthTable) = 2 ^ Len(variables)
    /\ \A r \in RowIndices :
         /\ DOMAIN truthTable[r] = {variables[k] : k \in 1..Len(variables)}
                                     \cup {"output"}
         /\ \A key \in DOMAIN truthTable[r] : truthTable[r][key] \in {0, 1}

C2_Witness ==
  /\ Constructed
  /\ Len(variables) = 2
  /\ Len(truthTable) = 4

C2_WitnessNoVariables ==
  /\ Constructed
  /\ variables = <<>>
  /\ Len(truthTable) = 1

\* C3: the input a' constructs and gives the two rows a=0 -> 1, a=1 -> 0.
C3_PostfixApostropheIsNot ==
  (pc # "start" /\ originalExpression = <<"a", "'">>) =>
    /\ Constructed
    /\ truthTable = << [key \in {"a", "output"} |-> IF key = "a" THEN 0 ELSE 1],
                       [key \in {"a", "output"} |-> IF key = "a" THEN 1 ELSE 0] >>

\* C4: the input a'' constructs and its outputs are those of the input a.
C4_DoubleNegationIsIdentity ==
  (pc # "start" /\ originalExpression = <<"a", "'", "'">>) =>
    /\ Constructed
    /\ truthTable = BooleanExpression(<<"a">>).truthTable

\* C5: NOT binds tighter than AND, AND tighter than OR: a|b*c parses to
\* OR(a, AND(b, c)); for operands x, y, z the input x|y*z parses to
\* OR(x, AND(y, z)) with the truth table of x|(y*z), and x*y|z parses to
\* OR(AND(x, y), z) with the truth table of (x*y)|z.
C5_Precedence ==
  (pc # "start" /\ originalExpression \in PrecedenceInputs) =>
    /\ Constructed
    /\ originalExpression = <<"a", "|", "b", "*", "c">> =>
         ast = OrNode(VarNode("a"), AndNode(VarNode("b"), VarNode("c")))
    /\ \A x \in Operands, y \in Operands, z \in Operands :
         /\ originalExpression = OrThenAnd(x, y, z) =>
              /\ ast = OrNode(parse(x).node,
                              AndNode(parse(y).node, parse(z).node))
              /\ truthTable =
                   BooleanExpression(OrThenAndGrouped(x, y, z)).truthTable
         /\ originalExpression = AndThenOr(x, y, z) =>
              /\ ast = OrNode(AndNode(parse(x).node, parse(y).node),
                              parse(z).node)
              /\ truthTable =
                   BooleanExpression(AndThenOrGrouped(x, y, z)).truthTable

C5_Witness ==
  /\ Constructed
  /\ originalExpression = <<"a", "|", "b", "*", "c">>
  /\ ast.type = "OR"
  /\ ast.right.type = "AND"

\* the grammar  Or := And ('|' And)*,  And := Not ('*' Not)*,
\* Not := "'" Not | Primary,  Primary := '(' Or ')' | VAR
\* as a recogniser over sequences of token types
RECURSIVE DerivesOr(_)
RECURSIVE DerivesAnd(_)
RECURSIVE DerivesNot(_)
RECURSIVE DerivesPrimary(_)
DerivesPrimary(s) ==
  \/ s = <<"VAR">>
  \/ /\ Len(s) >= 3
     /\ s[1] = "LPAREN"
     /\ s[Len(s)] = "RPAREN"
     /\ DerivesOr(SubSeq(s, 2, Len(s) - 1))
DerivesNot(s) ==
  \/ Len(s) >= 2 /\ s[1] = "NOT" /\ DerivesNot(Tail(s))
  \/ DerivesPrimary(s)
DerivesAnd(s) ==
  \/ DerivesNot(s)
  \/ \E k \in 2..(Len(s) - 1) :
       /\ s[k] = "AND"
       /\ DerivesNot(SubSeq(s, k + 1, Len(s)))
       /\ DerivesAnd(SubSeq(s, 1, k - 1))
DerivesOr(s) ==
  \/ DerivesAnd(s)
  \/ \E k \in 2..(Len(s) - 1) :
       /\ s[k] = "OR"
       /\ DerivesAnd(SubSeq(s, k + 1, Len(s)))
       /\ DerivesOr(SubSeq(s, 1, k - 1))

TokenTypes(tokens) == [k \in 1..Len(tokens) |-> tokens[k].type]

SyntaxMessages ==
  { "Unexpected end of expression", "Expected closing parenthesis",
    "Unexpected token", "Unexpected tokens at end of expression" }

C6_WitnessAccepted ==
  /\ Constructed
  /\ normalizedExpression = <<"'", "(", "a", "|", "b", ")">>

\* the characters the tokenizer accepts
AllowedCharacters ==
  {"(", ")", "'", "*", "|"} \cup LowerLetters \cup Digits \cup Whitespace

FirstIllegalIndex(s) ==
  CHOOSE k \in 1..Len(s) :
    /\ s[k] \notin AllowedCharacters
    /\ \A j \in 1..(k - 1) : s[j] \in AllowedCharacters

C7_WitnessTrimmed ==
  /\ pc = "failed"
  /\ originalExpression = <<" ", "a", "#">>
  /\ error.position = 1

\* every term of L followed by every term of R, L-major
ProductTerms(L, R) ==
  [n \in 1..(Len(L) * Len(R)) |->
     L[((n - 1) \div Len(R)) + 1] \o R[((n - 1) % Len(R)) + 1]]

\* C8: the SOP of And(l, r) is, in order, each term of l's SOP followed by
\* each term of r's SOP: |terms(l)| x |terms(r)| terms, no literal dropped;
\* (a+b)*c gives exactly [a, c] and [b, c].
C8_AndIsCartesianProduct ==
  pc = "rendered" =>
    /\ \A node \in Subtrees(ast) :
         node.type = "AND" =>
           LET L == extractSOP(node.left)
               R == extractSOP(node.right)
           IN /\ extractSOP(node) = ProductTerms(L, R)
              /\ Len(extractSOP(node)) = Len(L) * Len(R)
    /\ ast.type = "AND" =>
         sopTerms = ProductTerms(extractSOP(ast.left), extractSOP(ast.right))
    /\ originalExpression = <<"(", "a", "+", "b", ")", "*", "c">> =>
         sopTerms = << <<Literal("a", FALSE), Literal("c", FALSE)>>,
                       <<Literal("b", FALSE), Literal("c", FALSE)>> >>

C8_Witness ==
  /\ pc = "rendered"
  /\ originalExpression = <<"(", "a", "+", "b", ")", "*", "c">>
  /\ Len(sopTerms) = 2

\* a literal is true when its variable's bit differs from its inverted flag
LiteralTrue(lit, row) == (row[lit.var] = 1) # lit.inverted

SOPValue(terms, row) ==
  \E t \in 1..Len(terms) :
    \A l \in 1..Len(terms[t]) : LiteralTrue(terms[t][l], row)

\* C9: the extracted terms are a sum-of-products form of the expression:
\* on every row the OR of the ANDs of the literals equals the output.
C9_SOPEquivalentToAst ==
  (pc = "rendered" /\ AtomsOf(ast) \subseteq LowerLetters) =>
    \A r \in RowIndices :
      SOPValue(sopTerms, truthTable[r]) <=> truthTable[r]["output"] = 1

\* C10: evaluating a Var node whose name the assignment lacks throws, and
\* no node of the tree evaluates to undefined.
C10_AbsentVariableThrows ==
  (pc # "start" /\ ast # NullAst) =>
    \A i \in 0..(2 ^ Len(variables) - 1) :
      \A node \in Subtrees(ast) :
        LET symbolTable == symbolTableOf(variables, i) IN
        /\ (node.type = "VAR" /\ node.value \notin DOMAIN symbolTable) =>
             evaluateAst(node, symbolTable) \notin JsValues
        /\ evaluateAst(node, symbolTable) # "undefined"

\* C11: in the engine's own flow every Var leaf of the parsed AST, letter
\* or digit, has a value in the assignment of every row.
C11_EveryAtomIsAssigned ==
  Constructed =>
    \A i \in 0..(2 ^ Len(variables) - 1) :
      AtomsOf(ast) \subseteq DOMAIN symbolTableOf(variables, i)

\* C12: the input AB constructs and has the truth table of A*B: output 1
\* only when a=1 and b=1.
C12_AdjacencyIsAnd ==
  (pc # "start" /\ originalExpression = <<"A", "B">>) =>
    /\ Constructed
    /\ truthTable = BooleanExpression(<<"A", "*", "B">>).truthTable
    /\ \A r \in RowIndices :
         truthTable[r]["output"] = 1
           <=> (truthTable[r]["a"] = 1 /\ truthTable[r]["b"] = 1)

\* the spellings the README gives for AND, OR and NOT, each with the
\* input it is said to equal
AdvertisedEquivalents ==
  { << <<"A", " ", "&", " ", "B">>, <<"A", "*", "B">> >>,
    << <<"A", " ", "a", "n", "d", " ", "B">>, <<"A", "*", "B">> >>,
    << <<"A", " ", "o", "r", " ", "B">>, <<"A", "+", "B">> >>,
    << <<"~", "A">>, <<"!", "A">> >>,
    << <<"n", "o", "t", " ", "A">>, <<"!", "A">> >> }

XorInputs ==
  { <<"A", " ", "^", " ", "B">>, <<"A", " ", "x", "o", "r", " ", "B">> }
NandInputs == { <<"A", " ", "n", "a", "n", "d", " ", "B">> }
NorInputs == { <<"A", " ", "n", "o", "r", " ", "B">> }

\* the table of a two-input gate over a and b
IsGateTable(Gate(_, _)) ==
  /\ Constructed
  /\ variables = <<"a", "b">>
  /\ \A r \in RowIndices :
       truthTable[r]["output"] = 1
         <=> Gate(truthTable[r]["a"] = 1, truthTable[r]["b"] = 1)

Xor(p, q) == p # q
Nand(p, q) == ~(p /\ q)
Nor(p, q) == ~(p \/ q)

\* C13: the spellings of the README are accepted with their meaning:
\* A & B and A and B equal A*B, A or B equals A+B, ~A and not A equal !A,
\* and A ^ B, A xor B, A nand B, A nor B have the XOR, NAND, NOR tables.
C13_AdvertisedSpellingsAccepted ==
  pc # "start" =>
    /\ \A pair \in AdvertisedEquivalents :
         originalExpression = pair[1] =>
           /\ Constructed
           /\ truthTable = BooleanExpression(pair[2]).truthTable
    /\ originalExpression \in XorInputs => IsGateTable(Xor)
    /\ originalExpression \in NandInputs => IsGateTable(Nand)
    /\ originalExpression \in NorInputs => IsGateTable(Nor)

\* the bits of the first k variables of a row read as a binary number,
\* the first variable first
RECURSIVE BinaryValue(_, _, _)
BinaryValue(row, vs, k) ==
  IF k = 0 THEN 0 ELSE 2 * BinaryValue(row, vs, k - 1) + row[vs[k]]

VariableSet == {variables[k] : k \in 1..Len(variables)}

\* C14: row i (from 0) gives the variable at sorted index j the bit
\* (i >> (n-1-j)) & 1, so the first variable is the most-significant bit;
\* no two rows carry the same assignment and each of the 2^n assignments
\* occurs exactly once.
C14_RowsEnumerateAssignments ==
  Constructed =>
    LET n == Len(variables) IN
    /\ \A r \in RowIndices :
         /\ \A j \in 1..n :
              truthTable[r][variables[j]] = ((r - 1) \div (2 ^ (n - j))) % 2
         /\ BinaryValue(truthTable[r], variables, n) = r - 1
    /\ \A r1 \in RowIndices, r2 \in RowIndices :
         (\A v \in VariableSet : truthTable[r1][v] = truthTable[r2][v])
           => r1 = r2
    /\ \A f \in [VariableSet -> {0, 1}] :
         Cardinality({r \in RowIndices :
                        \A v \in VariableSet : truthTable[r][v] = f[v]}) = 1

C14_Witness ==
  /\ Constructed
  /\ variables = <<"a", "b">>
  /\ truthTable[2]["a"] = 0 /\ truthTable[2]["b"] = 1
  /\ truthTable[3]["a"] = 1 /\ truthTable[3]["b"] = 0

\* the spellings that stand for one character of the canonical alphabet
SpellingClasses ==
  { {"*", "middot"}, {"|", "+"}, {"'", "!", "macron"},
    {"a", "A"}, {"b", "B"}, {"c", "C"}, {"d", "D"} }

SpellingsOf(ch) == UNION {c \in SpellingClasses : ch \in c} \cup {ch}

\* the strings that differ from s in the spelling of one character or in a
\* leading or trailing blank
SurfaceVariants(s) ==
  UNION {{[s EXCEPT ![k] = alt] : alt \in SpellingsOf(s[k])} : k \in 1..Len(s)}
  \cup {<<" ">> \o s, s \o <<" ">>, <<" ">> \o s \o <<" ">>}

\* C15: inputs that differ only in surface syntax (middle dot or *, + or |,
\* ! or overline or apostrophe, letter case, surrounding blanks) normalize
\* to the same string and give the same AST, variable list and truth
\* table; normalizing a normalized string changes nothing.
C15_SurfaceSyntaxIsCanonicalised ==
  pc # "start" =>
    /\ normalize(normalizedExpression) = normalizedExpression
    /\ \A v \in SurfaceVariants(originalExpression) :
         normalize(v) = normalizedExpression
    /\ (Len(originalExpression) <= 2 \/ originalExpression \in Examples) =>
         \A v \in SurfaceVariants(originalExpression) :
           LET e == BooleanExpression(v) IN
           /\ e.ast = ast
           /\ e.variables = variables
           /\ e.truthTable = truthTable
           /\ e.error = error

C15_Witness ==
  /\ Constructed
  /\ originalExpression = <<"A", "middot", "B", "+", "C">>
  /\ normalizedExpression = <<"a", "*", "b", "|", "c">>
  /\ Len(truthTable) = 8

\* the letters in alphabetical order
LetterOrder == <<"a", "b", "c", "d", "n", "o", "r", "t", "x">>
Rank(ch) == CHOOSE k \in 1..Len(LetterOrder) : LetterOrder[k] = ch

\* C16: the variable list is strictly ascending, without duplicates, and
\* holds exactly the letters of the normalized expression (either case of a
\* letter in the input counts as that one variable); it is there whether or
\* not parsing succeeds.
C16_VariablesSortedAndExact ==
  pc # "start" =>
    /\ \A i \in 1..Len(variables), j \in 1..Len(variables) :
         i < j => Rank(variables[i]) < Rank(variables[j])
    /\ VariableSet =
         {normalizedExpression[k] : k \in 1..Len(normalizedExpression)}
           \cap {LetterOrder[k] : k \in 1..Len(LetterOrder)}
    /\ \A k \in 1..Len(originalExpression) :
         \A c \in {{"a", "A"}, {"b", "B"}, {"c", "C"}, {"d", "D"}} :
           originalExpression[k] \in c =>
             Cardinality(VariableSet \cap c) = 1

C16_Witness ==
  /\ pc = "failed"
  /\ originalExpression = <<"b", "A", "a">>
  /\ variables = <<"a", "b">>

\* every NOT of the tree is applied to a variable or to another NOT
NotOnlyOnLiterals(node) ==
  \A m \in Subtrees(node) :
    m.type = "NOT" => m.operand.type \in {"VAR", "NOT"}

IsSubmission == submissions' = submissions + 1

\* tokenization or parsing of the submitted value throws
ParseFails(value) == ~parse(normalize(trim(value))).ok

\* C17: a submission on which tokenization or parsing fails makes the
\* constructor throw an error with no AST and no truth table, shows that
\* error, and leaves the stored visualizer and the stored LaTeX string
\* exactly as they were before the submission.
C17_FailedSubmissionIsAllOrNothing ==
  [][ (IsSubmission /\ trim(submitted') # <<>> /\ ParseFails(submitted'))
      => LET boolExpr == BooleanExpression(trim(submitted')) IN
           /\ ~boolExpr.ok
           /\ boolExpr.error # NoError
           /\ boolExpr.ast = NullAst
           /\ boolExpr.truthTable = <<>>
           /\ lastOutcome' = "error"
           /\ errorText' = boolExpr.error
           /\ currentVisualizer' = currentVisualizer
           /\ currentLatex' = currentLatex ]_<<vars, uiVars>>

\* a*b was visualized, then a* was submitted and failed: a*b is still stored
C17_Witness ==
  /\ lastOutcome = "error"
  /\ submitted = <<"a", "*">>
  /\ errorText = Error("Unexpected end of expression", "", -1)
  /\ currentLatex = <<"a", " \\cdot ", "b">>
  /\ currentVisualizer.variables = <<"a", "b">>

\* C19: after every submission the error message is displayed exactly when
\* the most recent submission was empty after trimming or raised an error,
\* and hidden exactly when it succeeded; an earlier error does not stay
\* visible after a later successful submission.
C19_ErrorShownIffLatestSubmissionFailed ==
  submissions > 0 =>
    /\ errorDisplay \in {"none", "block"}
    /\ (errorDisplay = "block") <=>
         \/ trim(submitted) = <<>>
         \/ ~BooleanExpression(trim(submitted)).ok
         \/ lastOutcome = "renderError"

\* a successful submission after one whose expression raised an error: the
\* element still holds the earlier text and is hidden
C19_Witness ==
  /\ submissions >= 2
  /\ lastOutcome = "ok"
  /\ ~ParseFails(submitted)
  /\ errorText \notin {NoError, EnterExpression, RenderError}
  /\ errorDisplay = "none"

\* C20: whatever a copy click hands to the clipboard is derived from the
\* expression of the most recent submission; after a submission that failed
\* or was empty a copy click delivers nothing of an earlier expression.
C20_CopyDeliversLatestSubmission ==
  [][ clipboard' # clipboard
      => LET expression == trim(submitted)
             boolExpr == BooleanExpression(expression)
         IN /\ expression # <<>>
            /\ boolExpr.ok
            /\ clipboard'.kind = "latex"
                 => clipboard'.latex = toLatex(boolExpr.ast)
            /\ clipboard'.kind = "csv"
                 => clipboard'.csv = csvOf(Visualizer(boolExpr)) ]_<<vars, uiVars>>

\* ---------------------------------------------------------------------
\* expressions x | y * z over single letters, to compare LaTeX strings with
LatexPeers ==
  {OrThenAnd(<<x>>, <<y>>, <<z>>) : x \in {"a", "b", "c"},
                                    y \in {"a", "b", "c"},
                                    z \in {"a", "b", "c"}}

\* C21: toLatex keeps the grouping of the AST: a parsed expression whose
\* LaTeX string equals that of another parsed expression has the same
\* truth table as the other, also when an OR subtree is an operand of AND.
C21_SameLatexSameTruthTable ==
  Constructed =>
    \A other \in LatexPeers :
      LET peer == BooleanExpression(other) IN
      (peer.ok /\ toLatex(peer.ast) = toLatex(ast))
        => peer.truthTable = truthTable

\* ---------------------------------------------------------------------
\* a step of the page that changes the tab state
IsTabStep ==
  activeTabs' # activeTabs \/ panelDisplay' # panelDisplay \/ lastTab' # lastTab

\* C22: once a tab has been clicked, exactly one tab carries the active
\* class, exactly one panel is displayed and every other panel is hidden,
\* and both belong to the tab clicked last; a tab click leaves the stored
\* visualizer, the stored LaTeX string and the error display unchanged.
C22_OneActiveTabAndPanel ==
  /\ [](lastTab # "none" =>
          /\ lastTab \in TabKeys
          /\ activeTabs = {lastTab}
          /\ {k \in TabKeys : panelDisplay[k] = "block"} = {lastTab}
          /\ \A k \in TabKeys \ {lastTab} : panelDisplay[k] = "none")
  /\ [][IsTabStep =>
          /\ currentVisualizer' = currentVisualizer
          /\ currentLatex' = currentLatex
          /\ errorDisplay' = errorDisplay
          /\ errorText' = errorText]_<<vars, uiVars>>

\* the K-map tab clicked after another tab, with a*b stored and the error
\* of a later failed submission on display
C22_Witness ==
  /\ lastTab = "kmap"
  /\ activeTabs = {"kmap"}
  /\ panelDisplay["kmap"] = "block"
  /\ panelDisplay["block"] = "none"
  /\ currentLatex = <<"a", " \\cdot ", "b">>
  /\ lastOutcome = "error"
  /\ errorDisplay = "block"

====
